---- MODULE Spec2Model ----
(***************************************************************************)
(* A model of the pull-request reviewer: src/src/agent.py (PRReviewer and  *)
(* PRReviewConfig) driven by src/run_reviewer.py (main).                   *)
(*                                                                         *)
(* One process run is modelled: the import of src.agent, the construction  *)
(* of the reviewer, the review session (__aenter__ / __aexit__) and one    *)
(* call of review_pr inside it.  Every remote call (repository host,       *)
(* completion service, handle close) is a step that either returns or      *)
(* raises; the per-file tasks of a batch interleave freely.                *)
(*                                                                         *)
(* Not modelled: the "timestamp" field of a finding (datetime.utcnow()),   *)
(* the text of the prompt, and the log records.                            *)
(***************************************************************************)
EXTENDS Integers, Sequences, FiniteSets, TLC

\* ---------------------------------------------------------------- bounds
\* Longest changed-file list the host returns.
MaxHostFiles == 3
\* Largest max_files_to_review explored (PRReviewConfig.max_files_to_review).
MaxFilesLimit == 2
\* Largest batch_size explored (PRReviewConfig.batch_size).
MaxBatchSize == 2

\* Longest filename, counted in text pieces, given to the prompt builder.
MaxNameLen == 4

\* ------------------------------------------------------------------ data
Min(a, b) == IF a <= b THEN a ELSE b

\* The paths a change request may touch, by number: the host list is a
\* sequence of distinct paths.
PathOf(n) ==
    CASE n = 1 -> "README.md"
      [] n = 2 -> "main.py"
      [] n = 3 -> "app.JS"
      [] n = 4 -> "Makefile"
      [] OTHER -> "extra.lock"

Paths == { PathOf(n) : n \in 1..MaxHostFiles }

\* The list of n paths that starts at path number r and goes up, wrapping
\* round: a host order that is neither sorted nor the same for each r.
Rotation(r, n) == [ k \in 1..n |-> PathOf(((r + k - 2) % MaxHostFiles) + 1) ]

\* What pr.get_files() may return: lists of distinct paths, in some order.
HostFileLists == { Rotation(r, n) : r \in 1..MaxHostFiles, n \in 0..MaxHostFiles }

\* The arguments of main's PRReviewer(): both parameters at their default.
init_args == [ github_token |-> "None", openai_api_key |-> "None" ]
\* What a credential variable of the process environment may be at start.
EnvValues == { "None", "tok" }

\* Python truthiness of an optional string.
Truthy(s) == s # "None" /\ s # ""
\* Python's `a or b` on optional strings.
Or(a, b) == IF Truthy(a) THEN a ELSE b

\* The texts the completion service may answer with.
CompletionTexts == { "LGTM", "Needs work" }

\* What repo.get_contents(path, ref) may do: return a file whose bytes
\* decode as UTF-8, return a file whose bytes do not, return an object
\* without decoded_content (a directory listing), or raise.
ContentOutcomes == { "text", "undecodable", "no_decoded_content", "raise" }

RemoteOps == { "get_repo", "get_pull", "get_files", "get_contents",
               "completion", "create_review", "session_close", "client_close" }

VARIABLES
    pc,             \* position of main / review_pr
    environ,        \* os.environ: GITHUB_TOKEN, OPENAI_API_KEY
    startEnviron,   \* history: os.environ when the process started
    github_token,   \* self.github_token
    openai_api_key, \* self.openai_api_key
    config,         \* self.config: max_files_to_review, batch_size
    session,        \* self.session: "None", "open", "closed"
    openai_client,  \* self.openai_client: "None", "open", "closed"
    files,          \* analyze_code_changes: files (after truncation)
    hostFiles,      \* history: the list pr.get_files() returned to it
    batches,        \* history: the batches launched, each the list of its files
    i,              \* analyze_code_changes: the loop variable i
    taskState,      \* per file: "idle", "fetching", "completing", "settled"
    taskContent,    \* history, per file: how get_contents ended
    taskCompletion, \* history, per file: the completion text, "raise" or "none"
    taskResult,     \* per file: what the task returned or raised
    settleOrder,    \* history: file indices in the order their tasks settled
    reviews,        \* analyze_code_changes: reviews
    calls,          \* history: number of calls issued, per remote operation
    failed,         \* history: the remote operations that have raised
    posted,         \* the reviews the host holds for the pull request
    outcome,        \* review_pr: "none", "returned", "raised"
    error,          \* the exception review_pr raised: the call that failed, and where
    callerError,    \* the exception that leaves main's `async with`
    filename,       \* _analyze_file_content: filename, as a sequence of text pieces
    prompt          \* _analyze_file_content: the language and rules put in the prompt

vars == << pc, environ, startEnviron, github_token, openai_api_key,
           config, session, openai_client, files, hostFiles, batches, i, taskState,
           taskContent, taskCompletion, taskResult, settleOrder, reviews, calls, failed,
           posted, outcome, error, callerError, filename, prompt >>

promptVars == << filename, prompt >>
credVars == << environ, startEnviron, github_token, openai_api_key, config, promptVars >>
handleVars == << session, openai_client >>
analysisVars == << files, hostFiles, batches, i, taskState, taskContent, taskCompletion, taskResult,
                   settleOrder, reviews >>
runVars == << outcome, error, callerError >>

NoPrompt == [language |-> << >>, rules |-> << >>]
NoError == [op |-> "None", at |-> "None"]
NoResult == [kind |-> "none"]
Finding(f, a) == [kind |-> "finding", filename |-> f, analysis |-> a]
Exception(e) == [kind |-> "exception", error |-> e]

Init ==
    /\ pc = "import"
    /\ environ \in [ {"GITHUB_TOKEN", "OPENAI_API_KEY"} -> EnvValues ]
    /\ startEnviron = environ
    /\ github_token = "None"
    /\ openai_api_key = "None"
    /\ config \in [ max_files_to_review : 0..MaxFilesLimit,
                    batch_size : 1..MaxBatchSize ]
    /\ session = "None"
    /\ openai_client = "None"
    /\ files = << >>
    /\ hostFiles = << >>
    /\ batches = << >>
    /\ i = 0
    /\ taskState = << >>
    /\ taskContent = << >>
    /\ taskCompletion = << >>
    /\ taskResult = << >>
    /\ settleOrder = << >>
    /\ reviews = << >>
    /\ calls = [ op \in RemoteOps |-> 0 ]
    /\ failed = { }
    /\ posted = << >>
    /\ outcome = "none"
    /\ error = NoError
    /\ callerError = "None"
    /\ filename = << >>
    /\ prompt = NoPrompt

\* ------------------------------------------------- import and construction
\* `from src.agent import PRReviewer`: the module body assigns both
\* credential variables of the process environment.
ImportAgent ==
    /\ pc = "import"
    /\ environ' = [ environ EXCEPT !["GITHUB_TOKEN"] = "xxx",
                                   !["OPENAI_API_KEY"] = "xxx" ]
    /\ pc' = "init"
    /\ UNCHANGED << startEnviron, github_token, openai_api_key, config, promptVars,
                    handleVars, analysisVars, calls, failed, posted, runVars >>

\* PRReviewer.__init__.
Construct ==
    /\ pc = "init"
    /\ LET token == Or(init_args["github_token"], environ["GITHUB_TOKEN"])
           key == Or(init_args["openai_api_key"], environ["OPENAI_API_KEY"])
       IN  /\ github_token' = token
           /\ openai_api_key' = key
           /\ IF ~Truthy(token) \/ ~Truthy(key)
              THEN /\ pc' = "exit"
                   /\ callerError' = "ValueError"
              ELSE /\ pc' = "aenter"
                   /\ UNCHANGED callerError
    /\ UNCHANGED << environ, startEnviron, config, promptVars, handleVars,
                    analysisVars, calls, failed, posted, outcome, error >>

\* PRReviewer.__aenter__.
AEnter ==
    /\ pc = "aenter"
    /\ session' = "open"
    /\ openai_client' = "open"
    /\ pc' = "fd_get_repo"
    /\ UNCHANGED << credVars, analysisVars, calls, failed, posted, runVars >>

\* ------------------------------------------------------ failure handling
\* Mutant of Propagate: review_pr swallows the failure and goes on to publish
\* whatever it has.
PropagateSwallowed(op) ==
    /\ outcome' = outcome
    /\ error' = error
    /\ pc' = "post_create_review"

\* A failure of a repository call made outside the per-file tasks: the
\* enclosing `except Exception: ... raise` of fetch_pr_details,
\* analyze_code_changes or post_review re-raises, and so does review_pr's;
\* the exception leaves the body of main's `async with`.
Propagate(op) ==
    /\ outcome' = "raised"
    /\ error' = [op |-> op, at |-> pc]
    /\ pc' = "aexit_session"

\* Mutant of RepositoryCall: a call that raises is issued again (up to four
\* calls of the operation) before the failure is propagated.
RepositoryCallRetried(at, op, next) ==
    /\ pc = at
    /\ calls' = [ calls EXCEPT ![op] = @ + 1 ]
    /\ \E ok \in BOOLEAN :
         IF ok
         THEN /\ pc' = next
              /\ UNCHANGED << failed, outcome, error >>
         ELSE /\ failed' = failed \cup { op }
              /\ IF calls[op] < 3
                 THEN UNCHANGED << pc, outcome, error >>
                 ELSE Propagate(op)
    /\ UNCHANGED << credVars, handleVars, analysisVars, posted, callerError >>

\* One repository call made through _run_in_executor at position `at`:
\* it returns, and control moves on to `next`, or it raises.
RepositoryCall(at, op, next) ==
    /\ pc = at
    /\ calls' = [ calls EXCEPT ![op] = @ + 1 ]
    /\ \E ok \in BOOLEAN :
         IF ok
         THEN /\ pc' = next
              /\ UNCHANGED << failed, outcome, error >>
         ELSE /\ failed' = failed \cup { op }
              /\ Propagate(op)
    /\ UNCHANGED << credVars, handleVars, analysisVars, posted, callerError >>

\* --------------------------------------------------------- fetch_pr_details
FetchPrDetails_get_repo == RepositoryCall("fd_get_repo", "get_repo", "fd_get_pull")
FetchPrDetails_get_pull == RepositoryCall("fd_get_pull", "get_pull", "fd_get_files")
\* The list of filenames is returned in pr_details, which review_pr only logs.
FetchPrDetails_get_files == RepositoryCall("fd_get_files", "get_files", "an_get_repo")

\* ----------------------------------------------------- analyze_code_changes
AnalyzeCodeChanges_get_repo == RepositoryCall("an_get_repo", "get_repo", "an_get_pull")
AnalyzeCodeChanges_get_pull == RepositoryCall("an_get_pull", "get_pull", "an_get_files")

\* PRReviewConfig.ignore_patterns ("*.lock", "*.md", "*.txt"), as the paths
\* of PathOf that match one of them.
MatchesIgnorePattern(p) == p \in { "README.md", "extra.lock" }

\* Mutant of Truncate: the files that match an ignore pattern are dropped
\* before the slice.
TruncateUnignored(fs, limit) ==
    LET Kept(p) == ~MatchesIgnorePattern(p)
        kept == SelectSeq(fs, Kept)
    IN  SubSeq(kept, 1, Min(Len(kept), limit))

\* Mutant of Truncate: the slice keeps one entry too many.
TruncateOffByOne(fs, limit) == SubSeq(fs, 1, Min(Len(fs), limit + 1))

\* files[:max_files_to_review]
Truncate(fs, limit) == SubSeq(fs, 1, Min(Len(fs), limit))

\* files = list(pr.get_files()); files = files[:max_files_to_review];
\* reviews = []
AnalyzeCodeChanges_get_files ==
    /\ pc = "an_get_files"
    /\ calls' = [ calls EXCEPT !["get_files"] = @ + 1 ]
    /\ \/ \E listed \in HostFileLists :
            LET fs == Truncate(listed, config.max_files_to_review)
            IN  /\ hostFiles' = listed
                /\ files' = fs
                /\ taskState' = [ k \in 1..Len(fs) |-> "idle" ]
                /\ taskContent' = [ k \in 1..Len(fs) |-> "none" ]
                /\ taskCompletion' = [ k \in 1..Len(fs) |-> "none" ]
                /\ taskResult' = [ k \in 1..Len(fs) |-> NoResult ]
                /\ reviews' = << >>
                /\ batches' = << >>
                /\ i' = 0
                /\ pc' = "batch_loop"
                /\ UNCHANGED << settleOrder, failed, outcome, error >>
       \/ /\ failed' = failed \cup { "get_files" }
          /\ Propagate("get_files")
          /\ UNCHANGED analysisVars
    /\ UNCHANGED << credVars, handleVars, posted, callerError >>

\* Mutant of Batch: the slice takes one file more than batch_size.
BatchOneMore(start) ==
    { k \in 1..Len(files) : start < k /\ k <= start + config.batch_size + 1 }

\* batch = files[i:i + batch_size], as the set of (1-based) file indices.
Batch(start) == { k \in 1..Len(files) : start < k /\ k <= start + config.batch_size }

\* The files of that batch, in list order: the order in which the list
\* comprehension creates their tasks.
BatchFiles(start) ==
    LET ks == Batch(start)
    IN  [ n \in 1..Cardinality(ks) |->
            files[CHOOSE k \in ks : Cardinality({ j \in ks : j < k }) = n - 1] ]

\* Mutant of LaunchBatch: the tasks of every file are created at once, as a
\* single gather over the whole list would.
LaunchEveryFile ==
    /\ pc = "batch_loop"
    /\ i < Len(files)
    /\ taskState' = [ k \in 1..Len(files) |->
                        IF taskState[k] = "idle" THEN "fetching" ELSE taskState[k] ]
    /\ calls' = [ calls EXCEPT !["get_contents"] =
                     @ + Cardinality({ k \in 1..Len(files) : taskState[k] = "idle" }) ]
    /\ pc' = "gather"
    /\ UNCHANGED << credVars, handleVars, files, hostFiles, batches, i, taskContent,
                    taskCompletion, taskResult, settleOrder, reviews, failed,
                    posted, runVars >>

\* for i in range(0, len(files), batch_size): tasks = [...]; gather(*tasks)
\* Every task of the batch starts and issues its get_contents call.
LaunchBatch ==
    /\ pc = "batch_loop"
    /\ i < Len(files)
    /\ taskState' = [ k \in 1..Len(files) |->
                        IF k \in Batch(i) THEN "fetching" ELSE taskState[k] ]
    /\ calls' = [ calls EXCEPT !["get_contents"] = @ + Cardinality(Batch(i)) ]
    /\ batches' = Append(batches, BatchFiles(i))
    /\ pc' = "gather"
    /\ UNCHANGED << credVars, handleVars, files, hostFiles, i, taskContent,
                    taskCompletion, taskResult, settleOrder, reviews, failed,
                    posted, runVars >>

\* Mutant of AnalyzeFileExcept: the handler re-raises, so the task ends with
\* the exception, which gather hands back and the list comprehension drops.
AnalyzeFileReraise(f, e) == Exception(e)

\* _analyze_file, `except Exception as e`: the task returns an error finding.
AnalyzeFileExcept(f, e) == Finding(f, << "Error analyzing file: ", e >>)

\* _analyze_file_content, normal return.
AnalyzeFileContentReturn(f, text) == Finding(f, << text >>)

\* The task of file k settles with result r.
Settle(k, r) ==
    /\ taskState' = [ taskState EXCEPT ![k] = "settled" ]
    /\ taskResult' = [ taskResult EXCEPT ![k] = r ]
    /\ settleOrder' = Append(settleOrder, k)

\* Mutant of TaskContentReturns: a content fetch that raises is taken as
\* empty content and the completion request is issued all the same.
TaskContentReturnsThenAlwaysCompletes ==
    /\ pc = "gather"
    /\ \E k \in Batch(i) : \E how \in ContentOutcomes :
         /\ taskState[k] = "fetching"
         /\ taskContent' = [ taskContent EXCEPT ![k] = how ]
         /\ CASE how = "undecodable" ->
                   /\ Settle(k, AnalyzeFileExcept(files[k], "UnicodeDecodeError"))
                   /\ UNCHANGED << calls, failed >>
              [] OTHER ->
                   /\ taskState' = [ taskState EXCEPT ![k] = "completing" ]
                   /\ calls' = [ calls EXCEPT !["completion"] = @ + 1 ]
                   /\ failed' = IF how = "raise" THEN failed \cup { "get_contents" }
                                 ELSE failed
                   /\ UNCHANGED << taskResult, settleOrder >>
    /\ UNCHANGED << pc, credVars, handleVars, files, hostFiles, batches, i, taskCompletion,
                    reviews, posted, runVars >>

\* _analyze_file up to the completion call: get_contents returns or
\* raises, the content is decoded, and _analyze_file_content issues the
\* completion request.
TaskContentReturns ==
    /\ pc = "gather"
    /\ \E k \in Batch(i) : \E how \in ContentOutcomes :
         /\ taskState[k] = "fetching"
         /\ taskContent' = [ taskContent EXCEPT ![k] = how ]
         /\ CASE how = "raise" ->
                   /\ Settle(k, AnalyzeFileExcept(files[k], "get_contents"))
                   /\ failed' = failed \cup { "get_contents" }
                   /\ UNCHANGED calls
              [] how = "undecodable" ->
                   /\ Settle(k, AnalyzeFileExcept(files[k], "UnicodeDecodeError"))
                   /\ UNCHANGED << calls, failed >>
              [] OTHER ->
                   /\ taskState' = [ taskState EXCEPT ![k] = "completing" ]
                   /\ calls' = [ calls EXCEPT !["completion"] = @ + 1 ]
                   /\ UNCHANGED << taskResult, settleOrder, failed >>
    /\ UNCHANGED << pc, credVars, handleVars, files, hostFiles, batches, i, taskCompletion,
                    reviews, posted, runVars >>

\* _analyze_file_content after the completion call: it returns the finding,
\* or it re-raises and _analyze_file turns the failure into an error finding.
TaskCompletionReturns ==
    /\ pc = "gather"
    /\ \E k \in Batch(i) :
         /\ taskState[k] = "completing"
         /\ \/ \E text \in CompletionTexts :
                 /\ Settle(k, AnalyzeFileContentReturn(files[k], text))
                 /\ taskCompletion' = [ taskCompletion EXCEPT ![k] = text ]
                 /\ UNCHANGED failed
            \/ /\ Settle(k, AnalyzeFileExcept(files[k], "completion"))
               /\ taskCompletion' = [ taskCompletion EXCEPT ![k] = "raise" ]
               /\ failed' = failed \cup { "completion" }
    /\ UNCHANGED << pc, credVars, handleVars, files, hostFiles, batches, i, taskContent,
                    reviews, calls, posted, runVars >>

RECURSIVE InOrder(_, _)
\* The results of the file indices lo..hi, in index order.
InOrder(lo, hi) ==
    IF lo > hi THEN << >> ELSE << taskResult[lo] >> \o InOrder(lo + 1, hi)

RECURSIVE ResultsOf(_)
\* The results of the file indices of sequence ks, in the order of ks.
ResultsOf(ks) ==
    IF ks = << >> THEN << >> ELSE << taskResult[Head(ks)] >> \o ResultsOf(Tail(ks))

\* Mutant of GatherResults: the results come in completion order, as from
\* asyncio.as_completed.
GatherAsCompleted(start) ==
    LET InBatch(k) == start < k /\ k <= start + config.batch_size
    IN  ResultsOf(SelectSeq(settleOrder, InBatch))

\* What asyncio.gather(*tasks, return_exceptions=True) returns for the
\* batch starting after index `start`: one result per task, in task order.
GatherResults(start) == InOrder(start + 1, Min(start + config.batch_size, Len(files)))

IsFinding(r) == r.kind # "exception"

IsErrorResult(r) ==
    r.kind = "exception" \/ (r.kind = "finding" /\ r.analysis[1] = "Error analyzing file: ")

\* Mutant of CollectBatch: a failed file of the batch aborts the run, as
\* gather without return_exceptions over tasks that raise would.
CollectBatchFailFast ==
    /\ pc = "gather"
    /\ \A k \in Batch(i) : taskState[k] = "settled"
    /\ IF \E k \in Batch(i) : IsErrorResult(taskResult[k])
       THEN /\ outcome' = "raised"
            /\ error' = [op |-> "gather", at |-> pc]
            /\ pc' = "aexit_session"
            /\ UNCHANGED << reviews, i >>
       ELSE /\ reviews' = reviews \o SelectSeq(GatherResults(i), IsFinding)
            /\ i' = i + config.batch_size
            /\ pc' = "batch_loop"
            /\ UNCHANGED << outcome, error >>
    /\ UNCHANGED << credVars, handleVars, files, hostFiles, batches, taskState, taskContent,
                    taskCompletion, taskResult, settleOrder, calls, failed,
                    posted, callerError >>

\* Mutant of CollectBatch: the batch is collected only when the tasks of all
\* files, also those of batches not yet launched, have settled.
CollectBatchWhenEveryFileSettled ==
    /\ pc = "gather"
    /\ \A k \in 1..Len(files) : taskState[k] = "settled"
    /\ reviews' = reviews \o SelectSeq(GatherResults(i), IsFinding)
    /\ i' = i + config.batch_size
    /\ pc' = "batch_loop"
    /\ UNCHANGED << credVars, handleVars, files, hostFiles, batches, taskState, taskContent,
                    taskCompletion, taskResult, settleOrder, calls, failed,
                    posted, runVars >>

\* batch_reviews = await gather(...);
\* reviews.extend([r for r in batch_reviews if not isinstance(r, Exception)])
CollectBatch ==
    /\ pc = "gather"
    /\ \A k \in Batch(i) : taskState[k] = "settled"
    /\ reviews' = reviews \o SelectSeq(GatherResults(i), IsFinding)
    /\ i' = i + config.batch_size
    /\ pc' = "batch_loop"
    /\ UNCHANGED << credVars, handleVars, files, hostFiles, batches, taskState, taskContent,
                    taskCompletion, taskResult, settleOrder, calls, failed,
                    posted, runVars >>

\* Mutant of ReturnReviews: the loop stops when fewer than batch_size files
\* are left, as range(0, len(files) - batch_size + 1, batch_size) would.
ReturnReviewsBeforeShortBatch ==
    /\ pc = "batch_loop"
    /\ i + config.batch_size > Len(files)
    /\ pc' = "post_get_repo"
    /\ UNCHANGED << credVars, handleVars, analysisVars, calls, failed, posted, runVars >>

\* The loop ends: return reviews.
ReturnReviews ==
    /\ pc = "batch_loop"
    /\ i >= Len(files)
    /\ pc' = "post_get_repo"
    /\ UNCHANGED << credVars, handleVars, analysisVars, calls, failed, posted, runVars >>

\* -------------------------------------------------------------- post_review
PostReview_get_repo == RepositoryCall("post_get_repo", "get_repo", "post_get_pull")
PostReview_get_pull == RepositoryCall("post_get_pull", "get_pull", "post_create_review")

RECURSIVE SectionsNewestFirst(_)
\* Mutant of Sections: each section is put in front of the ones before it.
SectionsNewestFirst(rs) ==
    IF rs = << >> THEN << >>
    ELSE SectionsNewestFirst(Tail(rs))
         \o << "### ", Head(rs).filename, "\n" >> \o Head(rs).analysis \o << "\n\n" >>

RECURSIVE Sections(_)
\* for review in reviews: review_body += f"### {filename}\n{analysis}\n\n"
Sections(rs) ==
    IF rs = << >> THEN << >>
    ELSE << "### ", Head(rs).filename, "\n" >> \o Head(rs).analysis \o << "\n\n" >>
         \o Sections(Tail(rs))

\* The review body, as the sequence of the strings concatenated into it.
ReviewBody(rs) == << "## AI Code Review Summary\n\n" >> \o Sections(rs)

\* Mutant of PostReview_create_review: a failure after the host has stored
\* the review (a step after the call raises).
PostReview_create_review_PostThenRaise ==
    /\ pc = "post_create_review"
    /\ calls' = [ calls EXCEPT !["create_review"] = @ + 1 ]
    /\ posted' = Append(posted, ReviewBody(reviews))
    /\ \/ /\ outcome' = "returned"
          /\ pc' = "aexit_session"
          /\ UNCHANGED << failed, error >>
       \/ /\ failed' = failed \cup { "create_review" }
          /\ Propagate("create_review")
    /\ UNCHANGED << credVars, handleVars, analysisVars, callerError >>

\* Mutant of PostReview_create_review: a failed publish sends review_pr back
\* to analyse the files again (once).
PostReview_create_review_Reanalyse ==
    /\ pc = "post_create_review"
    /\ calls' = [ calls EXCEPT !["create_review"] = @ + 1 ]
    /\ \/ /\ posted' = Append(posted, ReviewBody(reviews))
          /\ outcome' = "returned"
          /\ pc' = "aexit_session"
          /\ UNCHANGED << failed, error >>
       \/ /\ failed' = failed \cup { "create_review" }
          /\ IF calls["create_review"] = 0
             THEN /\ pc' = "an_get_repo"
                  /\ UNCHANGED << outcome, error >>
             ELSE Propagate("create_review")
          /\ UNCHANGED posted
    /\ UNCHANGED << credVars, handleVars, analysisVars, callerError >>

\* pr.create_review(body=review_body, event="COMMENT"): the host stores the
\* review and post_review and review_pr return, or the call raises with
\* nothing stored and both re-raise.
PostReview_create_review ==
    /\ pc = "post_create_review"
    /\ calls' = [ calls EXCEPT !["create_review"] = @ + 1 ]
    /\ \/ /\ posted' = Append(posted, ReviewBody(reviews))
          /\ outcome' = "returned"
          /\ pc' = "aexit_session"
          /\ UNCHANGED << failed, error >>
       \/ /\ failed' = failed \cup { "create_review" }
          /\ Propagate("create_review")
          /\ UNCHANGED posted
    /\ UNCHANGED << credVars, handleVars, analysisVars, callerError >>

\* ----------------------------------------------------------------- __aexit__
\* if self.session: await self.session.close()
\* A close that raises leaves __aexit__ at once, with the close error.
AExit_session_close ==
    /\ pc = "aexit_session"
    /\ calls' = [ calls EXCEPT !["session_close"] = @ + 1 ]
    /\ \/ /\ session' = "closed"
          /\ pc' = "aexit_client"
          /\ UNCHANGED << failed, callerError >>
       \/ /\ failed' = failed \cup { "session_close" }
          /\ callerError' = "session_close"
          /\ pc' = "exit"
          /\ UNCHANGED session
    /\ UNCHANGED << credVars, openai_client, analysisVars, posted, outcome, error >>

\* if self.openai_client: await self.openai_client.close()
\* __aexit__ then returns None: an exception of the body is re-raised.
AExit_client_close ==
    /\ pc = "aexit_client"
    /\ calls' = [ calls EXCEPT !["client_close"] = @ + 1 ]
    /\ \/ /\ openai_client' = "closed"
          /\ callerError' = IF outcome = "raised" THEN error.op ELSE "None"
          /\ UNCHANGED failed
       \/ /\ failed' = failed \cup { "client_close" }
          /\ callerError' = "client_close"
          /\ UNCHANGED openai_client
    /\ pc' = "exit"
    /\ UNCHANGED << credVars, session, analysisVars, posted, outcome, error >>

Next ==
    \/ ImportAgent
    \/ Construct
    \/ AEnter
    \/ FetchPrDetails_get_repo
    \/ FetchPrDetails_get_pull
    \/ FetchPrDetails_get_files
    \/ AnalyzeCodeChanges_get_repo
    \/ AnalyzeCodeChanges_get_pull
    \/ AnalyzeCodeChanges_get_files
    \/ LaunchBatch
    \/ TaskContentReturns
    \/ TaskCompletionReturns
    \/ CollectBatch
    \/ ReturnReviews
    \/ PostReview_get_repo
    \/ PostReview_get_pull
    \/ PostReview_create_review
    \/ AExit_session_close
    \/ AExit_client_close

Spec == Init /\ [][Next]_vars

\* The event loop runs whatever is ready, and every remote call returns or
\* raises: a step that can be taken is eventually taken.
FairSpec == Spec /\ WF_vars(Next)

\* ------------------------------------------- the language key of the prompt
\* The pieces of text a filename is made of here: the dot, a piece with an
\* upper-case letter and a lower-case piece; neither piece holds a dot.
NamePieces == { ".", "Python", "md" }

\* The filenames given to _analyze_file_content: not empty.
Filenames == UNION { [ 1..n -> NamePieces ] : n \in 1..MaxNameLen }

\* str.lower()
Lower(s) == [ n \in 1..Len(s) |-> IF s[n] = "Python" THEN "python" ELSE s[n] ]

RECURSIVE Split(_)
\* filename.split('.'): the pieces between the dots, in order.
Split(s) ==
    IF \A n \in 1..Len(s) : s[n] # "." THEN << s >>
    ELSE LET p == CHOOSE n \in 1..Len(s) :
                      s[n] = "." /\ \A m \in 1..(n - 1) : s[m] # "."
         IN  << SubSeq(s, 1, p - 1) >> \o Split(SubSeq(s, p + 1, Len(s)))

\* file_ext = filename.split('.')[-1].lower()
FileExt(s) == Lower(Split(s)[Len(Split(s))])

\* PRReviewConfig.language_specific_rules
language_specific_rules ==
    ( << "python" >> :> << "PEP 8 compliance", "Type hints", "Docstrings",
                           "Error handling", "Code complexity" >> )
    @@ ( << "javascript" >> :> << "ESLint rules", "Modern ES6+ features",
                                  "Error handling", "Code organization" >> )

\* self.config.language_specific_rules.get(file_ext, [])
LanguageRules(ext) ==
    IF ext \in DOMAIN language_specific_rules
    THEN language_specific_rules[ext] ELSE << >>

\* _analyze_file_content is called with one of the filenames.
InitPrompt ==
    /\ pc = "prompt"
    /\ filename \in Filenames
    /\ prompt = NoPrompt
    /\ environ = [ v \in {"GITHUB_TOKEN", "OPENAI_API_KEY"} |-> "xxx" ]
    /\ startEnviron = environ
    /\ github_token = "xxx"
    /\ openai_api_key = "xxx"
    /\ config = [ max_files_to_review |-> MaxFilesLimit, batch_size |-> MaxBatchSize ]
    /\ session = "open"
    /\ openai_client = "open"
    /\ files = << >>
    /\ hostFiles = << >>
    /\ batches = << >>
    /\ i = 0
    /\ taskState = << >>
    /\ taskContent = << >>
    /\ taskCompletion = << >>
    /\ taskResult = << >>
    /\ settleOrder = << >>
    /\ reviews = << >>
    /\ calls = [ op \in RemoteOps |-> 0 ]
    /\ failed = { }
    /\ posted = << >>
    /\ outcome = "none"
    /\ error = NoError
    /\ callerError = "None"

\* _analyze_file_content up to the prompt: the language key and the rules.
BuildPrompt ==
    /\ pc = "prompt"
    /\ prompt' = [ language |-> FileExt(filename),
                   rules |-> LanguageRules(FileExt(filename)) ]
    /\ pc' = "prompt_built"
    /\ UNCHANGED << environ, startEnviron, github_token, openai_api_key, config,
                    filename, handleVars, analysisVars, calls, failed, posted,
                    runVars >>

NextPrompt == BuildPrompt

SpecPrompt == InitPrompt /\ [][NextPrompt]_vars

\* ------------------------------------------------------------- properties
PostPcs == { "post_get_repo", "post_get_pull", "post_create_review" }
MetaOps == { "get_repo", "get_pull", "get_files" }
CloseOps == { "session_close", "client_close" }

\* analyze_code_changes has returned its list to review_pr.
AnalysisReturned ==
    \/ pc \in PostPcs
    \/ outcome = "returned"
    \/ outcome = "raised" /\ error.at \in PostPcs

\* review_pr has been called and has returned or raised.
RunEnded == pc \in { "aexit_session", "aexit_client" } \/ (pc = "exit" /\ session # "None")

\* min(L, max_files_to_review) for the list the host returned.
TruncatedCount == Min(Len(hostFiles), config.max_files_to_review)

\* The content fetch (or the decoding of it) or the completion call of the
\* file at index k failed.
FileFailed(k) ==
    taskContent[k] \in { "raise", "undecodable" } \/ taskCompletion[k] = "raise"

IsErrorFindingOf(r, f) ==
    /\ r.kind = "finding"
    /\ r.filename = f
    /\ r.analysis[1] = "Error analyzing file: "

\* C1: once analyze_code_changes has returned, the findings list has exactly
\* min(L, max_files_to_review) entries, whatever per-file fetches and
\* completions failed, and every failed file has an error finding in it.
C1_FindingsCountIsTruncatedCount ==
    AnalysisReturned =>
        /\ Len(reviews) = TruncatedCount
        /\ \A k \in 1..Len(files) :
             FileFailed(k) =>
                 \E j \in 1..Len(reviews) : IsErrorFindingOf(reviews[j], files[k])

\* C1 witness: three files listed, two kept, the content fetch of one and the
\* completion of the other failed, and two findings were returned.
C1_Witness ==
    /\ AnalysisReturned
    /\ Len(hostFiles) = 3
    /\ Len(files) = 2
    /\ taskContent[1] = "raise"
    /\ taskCompletion[2] = "raise"
    /\ Len(reviews) = 2

\* C2: a file whose content fetch or completion fails settles with a finding
\* that carries an error description; a run in which a file failed ends only
\* after post_review was entered; and the finding of every file that did not
\* fail is the text its own completion returned, whatever the others did.
C2_FileFailureIsLocal ==
    /\ \A k \in 1..Len(files) :
         (taskState[k] = "settled" /\ FileFailed(k))
             => IsErrorFindingOf(taskResult[k], files[k])
    /\ ((\E k \in 1..Len(files) : FileFailed(k)) /\ outcome # "none")
           => AnalysisReturned
    /\ AnalysisReturned =>
         \A k \in 1..Len(files) :
             ~FileFailed(k) =>
                 /\ k <= Len(reviews)
                 /\ reviews[k] = [ kind |-> "finding", filename |-> files[k],
                                   analysis |-> << taskCompletion[k] >> ]

\* C2 witness: in a batch of two the first file's content fetch failed, the
\* second file was analysed, and the review was published.
C2_Witness ==
    /\ config.batch_size = 2
    /\ Len(files) = 2
    /\ taskContent[1] = "raise"
    /\ taskCompletion[2] = "LGTM"
    /\ Len(reviews) = 2
    /\ Len(posted) = 1

\* C3: once a get_repo, get_pull or get_files call has failed, review_pr has
\* raised that failure, and no create_review call is made and no review is
\* stored.
C3_MetadataFailureAborts ==
    (failed \cap MetaOps # { }) =>
        /\ outcome = "raised"
        /\ error.op \in MetaOps
        /\ calls["create_review"] = 0
        /\ posted = << >>

\* C3 witness: the run ended after get_pull failed in fetch_pr_details.
C3_Witness ==
    /\ pc = "exit"
    /\ error = [ op |-> "get_pull", at |-> "fd_get_pull" ]
    /\ outcome = "raised"
    /\ calls["create_review"] = 0

\* C4: a run of review_pr that has ended either returned with exactly one
\* review stored, or raised with none stored; create_review is called at
\* most once.
C4_PostedXorRaised ==
    /\ RunEnded => outcome \in { "returned", "raised" }
    /\ outcome = "returned" => Len(posted) = 1
    /\ outcome # "returned" => Len(posted) = 0
    /\ calls["create_review"] <= 1

\* C4 witness: a run that published a review with an error finding in it and
\* returned.
C4_Witness ==
    /\ pc = "exit"
    /\ outcome = "returned"
    /\ Len(posted) = 1
    /\ calls["create_review"] = 1
    /\ "completion" \in failed

\* C5: the finding at index k of the findings list is the result of the task
\* of the file at index k, whatever the order in which the tasks settled.
C5_FindingsInFileOrder ==
    /\ \A k \in 1..Len(reviews) :
         /\ k <= Len(files)
         /\ reviews[k].filename = files[k]
         /\ reviews[k] = taskResult[k]
    /\ AnalysisReturned => Len(reviews) = Len(files)

\* C5 witness: in a batch of two the second file's task settled first.
C5_Witness ==
    /\ AnalysisReturned
    /\ config.batch_size = 2
    /\ settleOrder = << 2, 1 >>
    /\ Len(reviews) = 2

\* C6: never more than min(L, max_files_to_review) tasks are launched; once
\* analyze_code_changes has returned exactly that many were, one for each of
\* the first min(L, max_files_to_review) entries of the host's list.
C6_TasksLaunchedIsTruncatedCount ==
    /\ calls["get_contents"] <= TruncatedCount
    /\ calls["completion"] <= calls["get_contents"]
    /\ AnalysisReturned =>
         /\ calls["get_contents"] = TruncatedCount
         /\ Len(files) = TruncatedCount
         /\ \A k \in 1..Len(files) :
              files[k] = hostFiles[k] /\ taskState[k] = "settled"

\* C6 witness: the host listed three files, not in sorted order, the limit
\* is two, and two tasks ran.
C6_Witness ==
    /\ AnalysisReturned
    /\ Len(hostFiles) = 3
    /\ hostFiles[1] = "app.JS"
    /\ config.max_files_to_review = 2
    /\ calls["get_contents"] = 2

\* C7: when the review session has been left, each of the two handles opened
\* by __aenter__ has been closed exactly once, also when the close of the
\* other handle failed.
C7_BothHandlesClosedOnce ==
    (pc = "exit" /\ session # "None") =>
        /\ calls["session_close"] = 1
        /\ calls["client_close"] = 1
        /\ ("client_close" \notin failed => session = "closed")
        /\ ("session_close" \notin failed => openai_client = "closed")

\* C8: the caller of the session never observes a close error; when the body
\* failed, it observes the body's error.
C8_CloseErrorNeverPropagates ==
    pc = "exit" =>
        /\ callerError \notin CloseOps
        /\ (outcome = "raised" => callerError = error.op)

\* C9: once create_review has failed, review_pr has raised that failure, and
\* from then on no get_contents and no completion call is issued.
C9_NoReanalysisAfterFailedPublish ==
    /\ [](("create_review" \in failed) =>
            (outcome = "raised" /\ error.op = "create_review"))
    /\ [][("create_review" \in failed) =>
            /\ calls'["get_contents"] = calls["get_contents"]
            /\ calls'["completion"] = calls["completion"]
            /\ calls'["create_review"] = calls["create_review"]]_vars

\* C9 witness: files were analysed, the publish failed, and the run ended.
C9_Witness ==
    /\ pc = "exit"
    /\ "create_review" \in failed
    /\ calls["completion"] >= 1
    /\ outcome = "raised"

\* A credential is absent: not given to PRReviewer() and not set in the
\* environment the process started with.
CredentialAbsent ==
    \/ ~Truthy(init_args["github_token"]) /\ ~Truthy(startEnviron["GITHUB_TOKEN"])
    \/ ~Truthy(init_args["openai_api_key"]) /\ ~Truthy(startEnviron["OPENAI_API_KEY"])

\* C10: when a credential is absent, construction fails with the
\* configuration error and no session is ever entered.
C10_AbsentCredentialIsFatal ==
    (CredentialAbsent /\ pc \notin { "import", "init" }) =>
        /\ pc = "exit"
        /\ callerError = "ValueError"
        /\ session = "None"
        /\ openai_client = "None"

RECURSIVE BodyAfter(_, _)
\* The text a reader of the format expects after the first n findings of rs:
\* the header, then "### {filename}\n{analysis}\n\n" for each, in order.
BodyAfter(rs, n) ==
    IF n = 0 THEN << "## AI Code Review Summary\n\n" >>
    ELSE BodyAfter(rs, n - 1)
         \o << "### ", rs[n].filename, "\n" >> \o rs[n].analysis \o << "\n\n" >>

\* The number of "### " section titles in a body.
SectionCount(body) == Cardinality({ n \in 1..Len(body) : body[n] = "### " })

\* C11: the body of a stored review is the fixed header followed by one
\* section "### {filename}\n{analysis}\n\n" per finding, in the order of the
\* findings list, so it has as many "### " titles as there are findings.
C11_BodyIsHeaderThenSections ==
    \A p \in 1..Len(posted) :
        /\ posted[p] = BodyAfter(reviews, Len(reviews))
        /\ SectionCount(posted[p]) = Len(reviews)

\* C11 witness: a review of two findings, the first an error finding, was
\* stored.
C11_Witness ==
    /\ Len(posted) = 1
    /\ Len(reviews) = 2
    /\ reviews[1].analysis[1] = "Error analyzing file: "
    /\ reviews[2].analysis = << "Needs work" >>

\* The number (from 0) of the batch the file at index k belongs to.
BatchNo(k) == (k - 1) \div config.batch_size

\* C12: whenever a task of a later batch has been launched, every task of
\* every earlier batch has settled.
C12_BatchesNeverOverlap ==
    \A j, k \in 1..Len(files) :
        (BatchNo(j) < BatchNo(k) /\ taskState[k] # "idle")
            => taskState[j] = "settled"

\* C12 witness: with batches of one, the second file's task is running
\* after the first file's task failed.
C12_Witness ==
    /\ config.batch_size = 1
    /\ Len(files) = 2
    /\ taskState[2] = "fetching"
    /\ taskState[1] = "settled"
    /\ taskContent[1] = "raise"

Fetching == { k \in 1..Len(files) : taskState[k] = "fetching" }
Completing == { k \in 1..Len(files) : taskState[k] = "completing" }

\* C14: at most batch_size tasks are in flight at any time, so at most
\* batch_size content fetches and at most batch_size completion requests are
\* outstanding.
C14_InFlightAtMostBatchSize ==
    /\ Cardinality(Fetching \cup Completing) <= config.batch_size
    /\ Cardinality(Fetching) <= config.batch_size
    /\ Cardinality(Completing) <= config.batch_size

\* C14 witness: batch_size tasks are in flight, one waiting for its content
\* and one for its completion.
C14_Witness ==
    /\ config.batch_size = 2
    /\ Cardinality(Fetching) = 1
    /\ Cardinality(Completing) = 1

\* C15, as claimed: the repository and the change request are fetched at
\* most once in a run, exactly once in a run that returns, and the file list
\* is not fetched again after fetch_pr_details.
C15_MetadataFetchedOnce ==
    /\ calls["get_repo"] <= 1
    /\ calls["get_pull"] <= 1
    /\ calls["get_files"] <= 1
    /\ outcome = "returned" => (calls["get_repo"] = 1 /\ calls["get_pull"] = 1)

\* C15, amended: fetch_pr_details, analyze_code_changes and post_review each
\* fetch the repository and the change request once, and the first two each
\* list the files once: a run issues at most three get_repo, three get_pull
\* and two get_files calls, and a run that returns issues exactly that many;
\* the files analysed are those of the second listing.
C15_MetadataFetchedOncePerStep ==
    /\ calls["get_repo"] <= 3
    /\ calls["get_pull"] <= calls["get_repo"]
    /\ calls["get_files"] <= 2
    /\ calls["get_files"] <= calls["get_pull"]
    /\ pc \in { "batch_loop", "gather" } =>
         (calls["get_repo"] = 2 /\ calls["get_pull"] = 2 /\ calls["get_files"] = 2)
    /\ outcome = "returned" =>
         (calls["get_repo"] = 3 /\ calls["get_pull"] = 3 /\ calls["get_files"] = 2)

\* C15 witness: a run that published its review and left the session.
C15_Witness ==
    /\ pc = "exit"
    /\ outcome = "returned"
    /\ Len(posted) = 1
    /\ calls["get_repo"] = 3
    /\ calls["get_files"] = 2

\* C16: a file whose content is binary or cannot be decoded is treated as
\* empty content: its task goes on to the completion call, and its finding
\* is not an error finding for the decoding.
C16_UndecodableContentIsEmpty ==
    \A k \in 1..Len(files) :
        taskContent[k] \in { "undecodable", "no_decoded_content" } =>
            /\ taskState[k] = "completing" \/ taskCompletion[k] # "none"
            /\ taskResult[k] # [ kind |-> "finding", filename |-> files[k],
                                 analysis |-> << "Error analyzing file: ",
                                                 "UnicodeDecodeError" >> ]

\* The suffix after the last dot of a filename that has one.
AfterLastDot(s) ==
    LET p == CHOOSE n \in 1..Len(s) :
                 s[n] = "." /\ \A m \in (n + 1)..Len(s) : s[m] # "."
    IN  SubSeq(s, p + 1, Len(s))

\* C17: the language key of the prompt is the lower-cased suffix after the
\* last dot of the filename, and empty when the filename has no dot; the
\* rules are the configured entry for that key, and empty when there is none.
C17_LanguageKeyIsExtension ==
    pc = "prompt_built" =>
        /\ prompt.language =
               IF \E n \in 1..Len(filename) : filename[n] = "."
               THEN Lower(AfterLastDot(filename))
               ELSE << >>
        /\ prompt.rules =
               IF prompt.language \in { << "python" >>, << "javascript" >> }
               THEN language_specific_rules[prompt.language]
               ELSE << >>

\* C18: a file that matches an ignore pattern and is among the first
\* max_files_to_review of the host's list is analysed like any other: once
\* analyze_code_changes has returned it has its finding, at its index.
C18_IgnoredFilesAreAnalysed ==
    /\ \A k \in 1..Len(files) :
         (taskState[k] # "idle") => files[k] = hostFiles[k]
    /\ AnalysisReturned =>
         \A k \in 1..Len(hostFiles) :
             (k <= config.max_files_to_review /\ MatchesIgnorePattern(hostFiles[k]))
                 => /\ k <= Len(reviews)
                    /\ reviews[k].filename = hostFiles[k]
                    /\ taskState[k] = "settled"

\* C18 witness: README.md came first in the host's list, was analysed, and
\* its finding was published.
C18_Witness ==
    /\ Len(posted) = 1
    /\ Len(hostFiles) = 2
    /\ hostFiles[1] = "README.md"
    /\ Len(reviews) >= 1
    /\ reviews[1] = [ kind |-> "finding", filename |-> "README.md",
                      analysis |-> << "LGTM" >> ]

\* The completion request of the file at index k has been issued.
CompletionIssued(k) == taskState[k] = "completing" \/ taskCompletion[k] # "none"

\* C19: a file's completion request is issued only once its content fetch
\* has returned content, never for a file whose content fetch failed, and at
\* most once per file.
C19_CompletionOnlyAfterContent ==
    /\ \A k \in 1..Len(files) :
         CompletionIssued(k) => taskContent[k] \in { "text", "no_decoded_content" }
    /\ \A k \in 1..Len(files) :
         taskContent[k] = "raise" => (~CompletionIssued(k) /\ taskState[k] = "settled")
    /\ calls["completion"] = Cardinality({ k \in 1..Len(files) : CompletionIssued(k) })

\* C19 witness: of two files, the first one's content fetch failed and the
\* second one's completion returned: one completion request in the run.
C19_Witness ==
    /\ AnalysisReturned
    /\ Len(files) = 2
    /\ taskContent[1] = "raise"
    /\ taskContent[2] = "text"
    /\ taskCompletion[2] = "LGTM"
    /\ calls["completion"] = 1

\* The tasks of the batch being gathered have all settled.
BatchSettled ==
    /\ pc = "gather"
    /\ \A k \in 1..Len(files) :
         (i < k /\ k <= i + config.batch_size) => taskState[k] = "settled"

\* review_pr has ended, with one review stored or with an error and none
\* stored, and __aexit__ has run and the `async with` has been left.
RunOverAndSessionLeft ==
    /\ pc = "exit"
    /\ \/ outcome = "returned" /\ Len(posted) = 1
       \/ outcome = "raised" /\ error # NoError /\ posted = << >>
    /\ calls["session_close"] = 1

====
